---- MODULE Spec2Model ----
(***************************************************************************)
(* Model of tools/reg_to_svd.py: the header -> device tree reconstruction  *)
(* (parse_header_lines, group_registers_by_peripheral, build_device_tree). *)
(* Text is modelled as TLA+ strings, the three regular expressions as item *)
(* lists run by a backtracking matcher, Python dicts as insertion-ordered  *)
(* sequences of key/value records.                                         *)
(***************************************************************************)
EXTENDS Integers, Sequences, FiniteSets, TLC

(***************************************************************************)
(* Python str primitives                                                   *)
(***************************************************************************)

\* s[i] for a 1-based index: the one-character string at position i
CharAt(s, i) == SubSeq(s, i, i)

\* characters matched by \s, and stripped by str.strip()
Whitespace == {" ", "\t", "\n", "\r", "\f"}

\* [0-9] and \d
Digit == {"0", "1", "2", "3", "4", "5", "6", "7", "8", "9"}

\* [0-9a-fA-F]
HexDigit == Digit \cup {"a", "b", "c", "d", "e", "f", "A", "B", "C", "D", "E", "F"}

\* [a-zA-Z0-9_]
WordChar ==
  Digit \cup {"_"} \cup
  {"a", "b", "c", "d", "e", "f", "g", "h", "i", "j", "k", "l", "m",
   "n", "o", "p", "q", "r", "s", "t", "u", "v", "w", "x", "y", "z",
   "A", "B", "C", "D", "E", "F", "G", "H", "I", "J", "K", "L", "M",
   "N", "O", "P", "Q", "R", "S", "T", "U", "V", "W", "X", "Y", "Z"}

\* str.startswith(p)
StartsWith(s, p) == Len(p) <= Len(s) /\ SubSeq(s, 1, Len(p)) = p

\* str.endswith(p)
EndsWith(s, p) == Len(p) <= Len(s) /\ SubSeq(s, Len(s) - Len(p) + 1, Len(s)) = p

\* s[n:]
DropFirst(s, n) == SubSeq(s, n + 1, Len(s))

\* p in s (substring test)
Contains(s, p) == \E i \in 1..(Len(s) - Len(p) + 1) : SubSeq(s, i, i + Len(p) - 1) = p

RECURSIVE LStrip(_)
LStrip(s) ==
  IF s # "" /\ CharAt(s, 1) \in Whitespace THEN LStrip(DropFirst(s, 1)) ELSE s

RECURSIVE RStrip(_)
RStrip(s) ==
  IF s # "" /\ CharAt(s, Len(s)) \in Whitespace
    THEN RStrip(SubSeq(s, 1, Len(s) - 1)) ELSE s

\* str.strip()
Strip(s) == RStrip(LStrip(s))

\* str.replace(old, new): every non-overlapping occurrence, left to right
RECURSIVE Replace(_, _, _)
Replace(s, old, new) ==
  IF s = "" THEN ""
  ELSE IF StartsWith(s, old)
    THEN new \o Replace(DropFirst(s, Len(old)), old, new)
    ELSE CharAt(s, 1) \o Replace(DropFirst(s, 1), old, new)

\* position of the last "_" of s (0 when there is none)
RECURSIVE LastUnderscore(_)
LastUnderscore(s) ==
  IF s = "" THEN 0
  ELSE IF CharAt(s, Len(s)) = "_" THEN Len(s)
  ELSE LastUnderscore(SubSeq(s, 1, Len(s) - 1))

\* name.rsplit('_', 1)[0]
RSplitHead(s) ==
  IF LastUnderscore(s) = 0 THEN s ELSE SubSeq(s, 1, LastUnderscore(s) - 1)

\* name.rsplit('_', 1)[1]  (called only on names that end in _<suffix>)
RSplitTail(s) == DropFirst(s, LastUnderscore(s))

\* value of one hexadecimal digit
HexDigitVal(c) ==
  CASE c = "0" -> 0 [] c = "1" -> 1 [] c = "2" -> 2 [] c = "3" -> 3
    [] c = "4" -> 4 [] c = "5" -> 5 [] c = "6" -> 6 [] c = "7" -> 7
    [] c = "8" -> 8 [] c = "9" -> 9
    [] c \in {"a", "A"} -> 10 [] c \in {"b", "B"} -> 11
    [] c \in {"c", "C"} -> 12 [] c \in {"d", "D"} -> 13
    [] c \in {"e", "E"} -> 14 [] c \in {"f", "F"} -> 15

\* value of a digit string in the given base
RECURSIVE DigitsVal(_, _)
DigitsVal(s, base) ==
  IF s = "" THEN 0
  ELSE DigitsVal(SubSeq(s, 1, Len(s) - 1), base) * base + HexDigitVal(CharAt(s, Len(s)))

\* int(value_str, 16) for a string DEFINE_RE captured with a 0x prefix
IntBase16(v) == DigitsVal(DropFirst(v, 2), 16)

\* a string of "0" characters only
AllZeros(v) == \A i \in 1..Len(v) : CharAt(v, i) = "0"

\* int(value_str, 0) raises ValueError: base 0 follows the literal syntax,
\* under which a decimal literal with a leading zero is legal only when
\* every digit is zero
IntBase0Raises(v) ==
  /\ ~StartsWith(v, "0x")
  /\ Len(v) > 1
  /\ CharAt(v, 1) = "0"
  /\ ~AllZeros(v)

\* int(value_str, 0) when it does not raise
IntBase0(v) == IF StartsWith(v, "0x") THEN IntBase16(v) ELSE DigitsVal(v, 10)

(***************************************************************************)
(* Regular expressions: an expression is a sequence of items, each a       *)
(* quantified character class, an optional group or an alternation.        *)
(***************************************************************************)

\* the largest capture group number of the three expressions
NumGroups == 5

Item(k, neg, cs, lit, lo, lazy, g, a, b) ==
  [k |-> k, neg |-> neg, cs |-> cs, lit |-> lit, lo |-> lo, lazy |-> lazy,
   g |-> g, a |-> a, b |-> b]

\* a literal string
Lit(s, g) == Item("lit", FALSE, {}, s, 0, FALSE, g, <<>>, <<>>)

\* [cs]*  [cs]+  [cs]*?  [cs]+?  over a class, negated or not
Star(neg, cs, g) == Item("set", neg, cs, "", 0, FALSE, g, <<>>, <<>>)
Plus(neg, cs, g) == Item("set", neg, cs, "", 1, FALSE, g, <<>>, <<>>)
StarLazy(neg, cs, g) == Item("set", neg, cs, "", 0, TRUE, g, <<>>, <<>>)
PlusLazy(neg, cs, g) == Item("set", neg, cs, "", 1, TRUE, g, <<>>, <<>>)

\* (?:a)?
Opt(a) == Item("opt", FALSE, {}, "", 0, FALSE, 0, a, <<>>)

\* (?:a|b)
Alt(a, b) == Item("alt", FALSE, {}, "", 0, FALSE, 0, a, b)

\* the character at position i of s is in the item's class
InClass(it, s, i) == i <= Len(s) /\ ((CharAt(s, i) \in it.cs) # it.neg)

\* how many consecutive characters from pos on the item can take at most
MaxRun(it, s, at) ==
  CHOOSE n \in 0..(Len(s) + 1 - at) :
    /\ \A i \in at..(at + n - 1) : InClass(it, s, i)
    /\ ~InClass(it, s, at + n)

ReFail == [ok |-> FALSE, has |-> {}, caps |-> [g \in 1..NumGroups |-> ""], end |-> 0]

\* record the text an item consumed in its capture group
Capture(m, it, s, at, c) ==
  IF it.g = 0 THEN m
  ELSE [m EXCEPT !.has = @ \cup {it.g},
                 !.caps[it.g] = @ \o SubSeq(s, at, at + c - 1)]

RECURSIVE ReRun(_, _, _, _)
RECURSIVE ReTry(_, _, _, _, _, _, _)

\* try the item with c characters, then with the next count in the order
\* its quantifier gives (greedy: fewer, lazy: more), until the rest matches
ReTry(it, rest, s, at, m, c, n) ==
  IF c < it.lo \/ c > n THEN ReFail
  ELSE LET r == ReRun(rest, s, at + c, Capture(m, it, s, at, c))
       IN IF r.ok THEN r
          ELSE ReTry(it, rest, s, at, m, IF it.lazy THEN c + 1 ELSE c - 1, n)

\* match the items at position pos of s, backtracking as re does
ReRun(items, s, at, m) ==
  IF items = <<>> THEN [m EXCEPT !.ok = TRUE, !.end = at]
  ELSE LET it == Head(items)
           rest == Tail(items)
       IN CASE it.k = "opt" ->
                 LET r == ReRun(it.a \o rest, s, at, m)
                 IN IF r.ok THEN r ELSE ReRun(rest, s, at, m)
            [] it.k = "alt" ->
                 LET r == ReRun(it.a \o rest, s, at, m)
                 IN IF r.ok THEN r ELSE ReRun(it.b \o rest, s, at, m)
            [] it.k = "lit" ->
                 IF /\ at + Len(it.lit) - 1 <= Len(s)
                    /\ SubSeq(s, at, at + Len(it.lit) - 1) = it.lit
                   THEN ReRun(rest, s, at + Len(it.lit), Capture(m, it, s, at, Len(it.lit)))
                   ELSE ReFail
            [] it.k = "set" ->
                 LET n == MaxRun(it, s, at)
                 IN ReTry(it, rest, s, at, m, IF it.lazy THEN it.lo ELSE n, n)

\* pattern.match(s): anchored at the start of s
ReMatch(items, s) == ReRun(items, s, 1, ReFail)

\* pattern.search(s): the match at the leftmost position that has one
ReSearch(items, s) ==
  LET hits == {at \in 1..(Len(s) + 1) : ReRun(items, s, at, ReFail).ok}
  IN IF hits = {} THEN ReFail
     ELSE ReRun(items, s, CHOOSE at \in hits : \A q \in hits : at <= q, ReFail)

\* ^#define\s+([a-zA-Z0-9_]+)\s+((?:0x[0-9a-fA-F]+)|[0-9]+)\s*(?:/\*\s*(.*?)\s*\*/)?
DEFINE_RE ==
  << Lit("#define", 0),
     Plus(FALSE, Whitespace, 0),
     Plus(FALSE, WordChar, 1),
     Plus(FALSE, Whitespace, 0),
     Alt(<< Lit("0x", 2), Plus(FALSE, HexDigit, 2) >>,
         << Plus(FALSE, Digit, 2) >>),
     Star(FALSE, Whitespace, 0),
     Opt(<< Lit("/*", 0),
            Star(FALSE, Whitespace, 0),
            StarLazy(TRUE, {"\n"}, 3),
            Star(FALSE, Whitespace, 0),
            Lit("*/", 0) >>) >>

\* /\*\s*([a-zA-Z0-9_]+)\s*::\s*([a-zA-Z0-9_ ]+)\s*::\s*(.*?)\s*\[(\d+):(\d+)\]\s*\*/
FIELD_COMMENT_RE ==
  << Lit("/*", 0),
     Star(FALSE, Whitespace, 0),
     Plus(FALSE, WordChar, 1),
     Star(FALSE, Whitespace, 0),
     Lit("::", 0),
     Star(FALSE, Whitespace, 0),
     Plus(FALSE, WordChar \cup {" "}, 2),
     Star(FALSE, Whitespace, 0),
     Lit("::", 0),
     Star(FALSE, Whitespace, 0),
     StarLazy(TRUE, {"\n"}, 3),
     Star(FALSE, Whitespace, 0),
     Lit("[", 0),
     Plus(FALSE, Digit, 4),
     Lit(":", 0),
     Plus(FALSE, Digit, 5),
     Lit("]", 0),
     Star(FALSE, Whitespace, 0),
     Lit("*/", 0) >>

\* /\*\s*([a-zA-Z0-9_]+)\s*::\s*([^:]+?)\s*\*/
REGISTER_COMMENT_RE ==
  << Lit("/*", 0),
     Star(FALSE, Whitespace, 0),
     Plus(FALSE, WordChar, 1),
     Star(FALSE, Whitespace, 0),
     Lit("::", 0),
     Star(FALSE, Whitespace, 0),
     PlusLazy(TRUE, {":"}, 2),
     Star(FALSE, Whitespace, 0),
     Lit("*/", 0) >>

(***************************************************************************)
(* Python dict: a sequence of [k, v] records in insertion order            *)
(***************************************************************************)

EmptyDict == <<>>

\* k in d
DictHas(d, k) == \E i \in 1..Len(d) : d[i].k = k

\* d[k]  (k in d)
DictGet(d, k) == d[CHOOSE i \in 1..Len(d) : d[i].k = k].v

\* d[k] = v: an existing key keeps its position
DictSet(d, k, v) ==
  IF DictHas(d, k)
    THEN [i \in 1..Len(d) |-> IF d[i].k = k THEN [k |-> k, v |-> v] ELSE d[i]]
    ELSE Append(d, [k |-> k, v |-> v])

\* list(d.keys())
DictKeys(d) == [i \in 1..Len(d) |-> d[i].k]

\* set(d.keys())
DictKeySet(d) == {d[i].k : i \in 1..Len(d)}

(***************************************************************************)
(* parse_header_lines: what one line is, by itself                         *)
(***************************************************************************)

\* line.strip() and the three pattern matches on the stripped line
AnalyseLine(raw) ==
  LET line == Strip(raw)
  IN [line |-> line,
      m_def |-> ReMatch(DEFINE_RE, line),
      field_match |-> ReSearch(FIELD_COMMENT_RE, line),
      reg_match |-> ReSearch(REGISTER_COMMENT_RE, line)]

\* not (line.startswith(('#define', '/*')) or not line)
ResetsContext(line) ==
  ~(StartsWith(line, "#define") \/ StartsWith(line, "/*") \/ line = "")

\* the define's trailing comment is present and not empty ("if comment")
CommentTruthy(m) == 3 \in m.has /\ m.caps[3] # ""

\* is_field_prop of a matched define
IsFieldProp(m) ==
  LET name == m.caps[1]
  IN \/ EndsWith(name, "_BITS") \/ EndsWith(name, "_SHIFT") \/ EndsWith(name, "_ALIGN")
     \/ /\ EndsWith(name, "_MASK")
        /\ (~CommentTruthy(m) \/ ~Contains(m.caps[3], "Register"))

\* the line is a field-property define
IsFieldPropLine(a) == a.m_def.ok /\ IsFieldProp(a.m_def)

\* the line is a register definition
IsRegisterLine(a) ==
  a.m_def.ok /\ ~IsFieldProp(a.m_def) /\ StartsWith(a.m_def.caps[2], "0x")

\* the line makes int(value_str, 0) raise ValueError
LineRaises(a) == IsFieldPropLine(a) /\ IntBase0Raises(a.m_def.caps[2])

\* desc of a register definition
RegisterDesc(m) ==
  IF CommentTruthy(m) THEN Strip(Replace(m.caps[3], "Register", "")) ELSE m.caps[1]

\* last_field_info: None is the empty sequence, a context a one-element one
NoFieldInfo == <<>>

\* the context a field comment sets
FieldInfoOf(fm) ==
  << [key_base |-> fm.caps[1] \o "_" \o Replace(fm.caps[2], " ", "_"),
      desc |-> Strip(fm.caps[3])] >>

\* the register comment's groups first, the field comment's otherwise
CommentNames_RegisterFirst(a) ==
  IF a.reg_match.ok
    THEN [periph_name |-> a.reg_match.caps[1], reg_name |-> a.reg_match.caps[2]]
  ELSE IF a.field_match.ok
    THEN [periph_name |-> a.field_match.caps[1], reg_name |-> a.field_match.caps[2]]
  ELSE [periph_name |-> "", reg_name |-> ""]

\* periph_name and reg_name_from_comment after the comment matching:
\* the field comment's groups first, the register comment's otherwise
CommentNames(a) ==
  IF a.field_match.ok
    THEN [periph_name |-> a.field_match.caps[1], reg_name |-> a.field_match.caps[2]]
  ELSE IF a.reg_match.ok
    THEN [periph_name |-> a.reg_match.caps[1], reg_name |-> a.reg_match.caps[2]]
  ELSE [periph_name |-> "", reg_name |-> ""]

\* the line yields a fully-qualified name
HasFqn(a) ==
  LET n == CommentNames(a)
  IN n.periph_name # "" /\ n.reg_name # "" /\ ~Contains(n.reg_name, "::")

\* reg_name of the fully-qualified name
FqnRegName(a) == Replace(Strip(CommentNames(a).reg_name), " ", "_")

\* reg_fqn without the peripheral name in front
FqnOf_NoPeripheral(a) == FqnRegName(a)

\* reg_fqn
FqnOf(a) == CommentNames(a).periph_name \o "_" \o FqnRegName(a)

(***************************************************************************)
(* parse_header_lines: one iteration of the loop over the lines            *)
(***************************************************************************)

\* fields_info[prefix].setdefault(key, value): the first define wins
SetFieldProp_FirstWins(field_props, prefix, key, value) ==
  IF DictHas(field_props, prefix) /\ DictHas(DictGet(field_props, prefix), key)
    THEN field_props
    ELSE DictSet(field_props, prefix,
                 DictSet(IF DictHas(field_props, prefix) THEN DictGet(field_props, prefix)
                                                         ELSE EmptyDict,
                         key, value))

\* fields_info[prefix][key] = value
SetFieldProp(field_props, prefix, key, value) ==
  DictSet(field_props, prefix,
          DictSet(IF DictHas(field_props, prefix) THEN DictGet(field_props, prefix)
                                                  ELSE EmptyDict,
                  key, value))

\* the field-property branch without "last_field_info = None"
FieldPropStep_KeepsContext(ps, m) ==
  LET name == m.caps[1]
      prop == RSplitTail(name)
      prefix == RSplitHead(name)
      value == IntBase0(m.caps[2])
      fi == CASE prop = "SHIFT" -> SetFieldProp(ps.fields_info, prefix, "bitOffset", value)
              [] prop = "BITS" -> SetFieldProp(ps.fields_info, prefix, "bitWidth", value)
              [] OTHER -> ps.fields_info
      matches == /\ ps.last_field_info # NoFieldInfo
                 /\ StartsWith(prefix, ps.last_field_info[1].key_base)
  IN [ps EXCEPT
        !.fields_info = fi,
        !.field_descriptions =
           IF matches /\ ~DictHas(@, prefix)
             THEN DictSet(@, prefix, ps.last_field_info[1].desc) ELSE @]

\* the field-property branch of the define handling
FieldPropStep(ps, m) ==
  LET name == m.caps[1]
      prop == RSplitTail(name)
      prefix == RSplitHead(name)
      value == IntBase0(m.caps[2])
      fi == CASE prop = "SHIFT" -> SetFieldProp(ps.fields_info, prefix, "bitOffset", value)
              [] prop = "BITS" -> SetFieldProp(ps.fields_info, prefix, "bitWidth", value)
              [] OTHER -> ps.fields_info
      matches == /\ ps.last_field_info # NoFieldInfo
                 /\ StartsWith(prefix, ps.last_field_info[1].key_base)
  IN [ps EXCEPT
        !.fields_info = fi,
        !.field_descriptions =
           IF matches /\ ~DictHas(@, prefix)
             THEN DictSet(@, prefix, ps.last_field_info[1].desc) ELSE @,
        !.last_field_info = IF matches THEN NoFieldInfo ELSE @]

\* the register-definition branch of the define handling
RegisterStep(ps, m) ==
  [ps EXCEPT !.registers_info =
     DictSet(@, m.caps[1], [addr |-> IntBase16(m.caps[2]), desc |-> RegisterDesc(m)])]

\* the define handling
DefineStep(ps, a) ==
  IF ~a.m_def.ok THEN ps
  ELSE IF IsFieldProp(a.m_def) THEN FieldPropStep(ps, a.m_def)
  ELSE IF StartsWith(a.m_def.caps[2], "0x") THEN RegisterStep(ps, a.m_def)
  ELSE ps

\* no context reset
ResetStep_Never(ps, a) == ps

\* the context reset at the top of the iteration
ResetStep(ps, a) ==
  IF ResetsContext(a.line) THEN [ps EXCEPT !.last_field_info = NoFieldInfo] ELSE ps

\* the comment handling: the pending context
CommentStep(ps, a) ==
  IF a.field_match.ok
    THEN [ps EXCEPT !.last_field_info = FieldInfoOf(a.field_match)]
    ELSE ps

\* the name tables without the "not in" test: the last occurrence wins
FqnStep_LastWins(ps, a) ==
  IF HasFqn(a)
    THEN [ps EXCEPT
            !.reg_fqn_to_periph = DictSet(@, FqnOf(a), CommentNames(a).periph_name),
            !.reg_fqn_to_regname = DictSet(@, FqnOf(a), FqnRegName(a))]
    ELSE ps

\* the comment handling: the fully-qualified name tables
FqnStep(ps, a) ==
  IF HasFqn(a) /\ ~DictHas(ps.reg_fqn_to_periph, FqnOf(a))
    THEN [ps EXCEPT
            !.reg_fqn_to_periph = DictSet(@, FqnOf(a), CommentNames(a).periph_name),
            !.reg_fqn_to_regname = DictSet(@, FqnOf(a), FqnRegName(a))]
    ELSE ps

\* the body of the loop, for a line that does not raise
LineStep(ps, a) == FqnStep(CommentStep(DefineStep(ResetStep(ps, a), a), a), a)

\* the tables and the pending context before the first line
InitialParse ==
  [registers_info |-> EmptyDict,
   fields_info |-> EmptyDict,
   field_descriptions |-> EmptyDict,
   reg_fqn_to_periph |-> EmptyDict,
   reg_fqn_to_regname |-> EmptyDict,
   last_field_info |-> NoFieldInfo]

(***************************************************************************)
(* sorted(): a stable sort of [key, val] pairs by ascending integer key    *)
(***************************************************************************)

\* insert x behind every element whose key is not larger
RECURSIVE InsertSorted(_, _)
InsertSorted(sorted, x) ==
  IF sorted = <<>> THEN <<x>>
  ELSE IF Head(sorted).key <= x.key
    THEN <<Head(sorted)>> \o InsertSorted(Tail(sorted), x)
    ELSE <<x>> \o sorted

RECURSIVE SortPairs(_)
SortPairs(pairs) ==
  IF pairs = <<>> THEN <<>>
  ELSE InsertSorted(SortPairs(SubSeq(pairs, 1, Len(pairs) - 1)), pairs[Len(pairs)])

\* sorted(keys, key=len): without reverse=True
SortedByLenAsc(keys) ==
  LET pairs == [i \in 1..Len(keys) |-> [key |-> Len(keys[i]), val |-> keys[i]]]
      sorted == SortPairs(pairs)
  IN [i \in 1..Len(sorted) |-> sorted[i].val]

\* sorted(keys, key=len, reverse=True): equal lengths keep their order
SortedByLenDesc(keys) ==
  LET pairs == [i \in 1..Len(keys) |-> [key |-> 0 - Len(keys[i]), val |-> keys[i]]]
      sorted == SortPairs(pairs)
  IN [i \in 1..Len(sorted) |-> sorted[i].val]

\* sorted(regs, key=lambda r: r.addr)
SortedByAddr(regs) ==
  LET pairs == [i \in 1..Len(regs) |-> [key |-> regs[i].addr, val |-> regs[i]]]
      sorted == SortPairs(pairs)
  IN [i \in 1..Len(sorted) |-> sorted[i].val]

(***************************************************************************)
(* group_registers_by_peripheral                                           *)
(***************************************************************************)

\* the first of the candidates that reg_define starts with, as a sequence
\* of at most one element
RECURSIVE FirstPrefix(_, _)
FirstPrefix(candidates, reg_define) ==
  IF candidates = <<>> THEN <<>>
  ELSE IF StartsWith(reg_define, Head(candidates)) THEN <<Head(candidates)>>
  ELSE FirstPrefix(Tail(candidates), reg_define)

\* the fallback taking the register name recorded for the matched name
Attribute_MatchedName(reg_define, fqn_periph, fqn_regname) ==
  IF DictHas(fqn_periph, reg_define) /\ DictGet(fqn_periph, reg_define) # ""
    THEN [periph_name |-> DictGet(fqn_periph, reg_define),
          reg_name |-> DictGet(fqn_regname, reg_define)]
  ELSE LET hit == FirstPrefix(SortedByLenDesc(DictKeys(fqn_periph)), reg_define)
       IN IF hit = <<>>
            THEN [periph_name |-> "",
                  reg_name |-> IF DictHas(fqn_regname, reg_define)
                                 THEN DictGet(fqn_regname, reg_define) ELSE ""]
            ELSE [periph_name |-> DictGet(fqn_periph, hit[1]),
                  reg_name |-> DictGet(fqn_regname, hit[1])]

\* periph_name and reg_name of a register define ("" stands for None)
Attribute(reg_define, fqn_periph, fqn_regname) ==
  IF DictHas(fqn_periph, reg_define) /\ DictGet(fqn_periph, reg_define) # ""
    THEN [periph_name |-> DictGet(fqn_periph, reg_define),
          reg_name |-> DictGet(fqn_regname, reg_define)]
  ELSE LET hit == FirstPrefix(SortedByLenDesc(DictKeys(fqn_periph)), reg_define)
       IN IF hit = <<>>
            THEN [periph_name |-> "",
                  reg_name |-> IF DictHas(fqn_regname, reg_define)
                                 THEN DictGet(fqn_regname, reg_define) ELSE ""]
            ELSE [periph_name |-> DictGet(fqn_periph, hit[1]),
                  reg_name |-> DropFirst(reg_define,
                                         Len(DictGet(fqn_periph, hit[1])) + 1)]

\* peripherals[periph_name].append(info)
AppendToGroup(groups, periph_name, info) ==
  DictSet(groups, periph_name,
          Append(IF DictHas(groups, periph_name)
                   THEN DictGet(groups, periph_name) ELSE <<>>,
                 info))

\* the loop body without the test of periph_name and reg_name
GroupOne_NoWarning(g, item, fqn_periph, fqn_regname) ==
  LET attr == Attribute(item.k, fqn_periph, fqn_regname)
  IN [g EXCEPT !.peripherals =
        AppendToGroup(@, attr.periph_name,
          [reg_name |-> attr.reg_name,
           addr |-> item.v.addr,
           desc |-> IF item.v.desc # "" THEN item.v.desc ELSE attr.reg_name,
           reg_define |-> item.k])]

\* the loop body for one item of registers_info; g holds the groups built so
\* far and the warnings printed so far
GroupOne(g, item, fqn_periph, fqn_regname) ==
  LET attr == Attribute(item.k, fqn_periph, fqn_regname)
  IN IF attr.periph_name # "" /\ attr.reg_name # ""
       THEN [g EXCEPT !.peripherals =
               AppendToGroup(@, attr.periph_name,
                 [reg_name |-> attr.reg_name,
                  addr |-> item.v.addr,
                  desc |-> IF item.v.desc # "" THEN item.v.desc ELSE attr.reg_name,
                  reg_define |-> item.k])]
       ELSE [g EXCEPT !.stderr = Append(@, item.k)]

RECURSIVE GroupLoop(_, _, _, _)
GroupLoop(g, items, fqn_periph, fqn_regname) ==
  IF items = <<>> THEN g
  ELSE GroupLoop(GroupOne(g, Head(items), fqn_periph, fqn_regname),
                 Tail(items), fqn_periph, fqn_regname)

\* the groups returned and the warnings written to stderr
group_registers_by_peripheral(reg_defs, fqn_periph, fqn_regname) ==
  GroupLoop([peripherals |-> EmptyDict, stderr |-> <<>>],
            reg_defs, fqn_periph, fqn_regname)

(***************************************************************************)
(* build_device_tree                                                       *)
(***************************************************************************)

\* Register.size
RegisterSize == 32

\* all_reg_fqns
AllRegFqns(groups) ==
  UNION {{groups[i].v[j].reg_define : j \in 1..Len(groups[i].v)} :
         i \in 1..Len(groups)}

\* regs[0].addr: the address of the first register instead of the least
MinAddr_First(regs) == regs[1].addr

\* min(r.addr for r in regs)
MinAddr(regs) ==
  CHOOSE a \in {regs[i].addr : i \in 1..Len(regs)} :
    \A i \in 1..Len(regs) : a <= regs[i].addr

\* is_more_specific_match left False: no look at the longer register names
IsMoreSpecificMatch_Never(field_prefix, reg_define, all_reg_fqns) == FALSE

\* is_more_specific_match
IsMoreSpecificMatch(field_prefix, reg_define, all_reg_fqns) ==
  \E other \in all_reg_fqns :
    /\ Len(other) > Len(reg_define)
    /\ StartsWith(other, reg_define)
    /\ StartsWith(field_prefix, other \o "_")

\* the Field one entry of fields_info gives a register, as a sequence of at
\* most one element
FieldOf(entry, reg_define, field_descs, all_reg_fqns) ==
  LET field_name == DropFirst(entry.k, Len(reg_define) + 1)
  IN IF /\ StartsWith(entry.k, reg_define \o "_")
        /\ ~IsMoreSpecificMatch(entry.k, reg_define, all_reg_fqns)
        /\ DictHas(entry.v, "bitOffset")
        /\ DictHas(entry.v, "bitWidth")
       THEN << [name |-> field_name,
                description |-> IF DictHas(field_descs, entry.k)
                                  THEN DictGet(field_descs, entry.k)
                                  ELSE field_name,
                bit_offset |-> DictGet(entry.v, "bitOffset"),
                bit_width |-> DictGet(entry.v, "bitWidth")] >>
       ELSE <<>>

\* the fields added to one register, in the order of fields_info
RECURSIVE FieldsOf(_, _, _, _)
FieldsOf(entries, reg_define, field_descs, all_reg_fqns) ==
  IF entries = <<>> THEN <<>>
  ELSE FieldOf(Head(entries), reg_define, field_descs, all_reg_fqns) \o
       FieldsOf(Tail(entries), reg_define, field_descs, all_reg_fqns)

\* the Register built from one RegisterInfo
RegisterOf(reg_info, base_address, field_props, field_descs, all_reg_fqns) ==
  [name |-> reg_info.reg_name,
   description |-> reg_info.desc,
   address_offset |-> reg_info.addr - base_address,
   size |-> RegisterSize,
   fields |-> FieldsOf(field_props, reg_info.reg_define, field_descs, all_reg_fqns)]

\* Peripheral.add_register for each RegisterInfo in turn
RECURSIVE AddRegisters(_, _, _, _, _, _)
AddRegisters(registers, regs, base_address, field_props, field_descs, all_reg_fqns) ==
  IF regs = <<>> THEN registers
  ELSE AddRegisters(
         DictSet(registers, Head(regs).reg_name,
                 RegisterOf(Head(regs), base_address, field_props, field_descs,
                            all_reg_fqns)),
         Tail(regs), base_address, field_props, field_descs, all_reg_fqns)

\* the Peripheral built from one group
PeripheralOf(periph_name, regs, field_props, field_descs, all_reg_fqns) ==
  [name |-> periph_name,
   base_address |-> MinAddr(regs),
   description |-> periph_name \o " Peripheral",
   registers |-> AddRegisters(EmptyDict, SortedByAddr(regs), MinAddr(regs),
                              field_props, field_descs, all_reg_fqns)]

\* Device.add_peripheral for each group that has registers
RECURSIVE AddPeripherals(_, _, _, _, _)
AddPeripherals(done, groups, field_props, field_descs, all_reg_fqns) ==
  IF groups = <<>> THEN done
  ELSE AddPeripherals(
         IF Head(groups).v = <<>> THEN done
         ELSE DictSet(done, Head(groups).k,
                      PeripheralOf(Head(groups).k, Head(groups).v, field_props,
                                   field_descs, all_reg_fqns)),
         Tail(groups), field_props, field_descs, all_reg_fqns)

build_device_tree(device_name, device_description, groups, field_props, field_descs) ==
  [name |-> device_name,
   description |-> device_description,
   peripherals |-> AddPeripherals(EmptyDict, groups, field_props,
                                  field_descs, AllRegFqns(groups))]

(***************************************************************************)
(* Inputs: headers of a few lines over small sets of lines                 *)
(***************************************************************************)

\* the longest header of each family of inputs
MaxLinesGroup == 4
MaxLinesFields == 4
MaxLinesParse == 3

\* the header of the end-to-end example
ExampleHeader ==
  << "/* UART :: UART_CTRL :: Control register */",
     "#define UART_CTRL 0x1000",
     "/* UART :: UART_CTRL :: ENABLE :: Enable bit [0:0] */",
     "#define UART_CTRL_ENABLE_SHIFT 0",
     "#define UART_CTRL_ENABLE_BITS 1" >>

\* lines about the attribution of registers to peripherals
GroupLines ==
  { "/* FOO :: BAR */",
    "/* FOO_BAR :: B */",
    "#define FOO_BAR_BAZ 0x30",
    "#define FOO_BAR 0x20",
    "  #define FOO_QUX 0x10 /* Qux Register */",
    "#define Z_R 0x8",
    "#define Z_ 0x4 /* Z ::  */",
    "#define FOO_BAR_SHIFT 08" }

\* lines about the fields of registers
FieldLines ==
  { "#define P_A 0x10 /* P :: A */",
    "#define P_A_E 0x14",
    "#define P_A_E_X_SHIFT 4",
    "#define P_A_E_X_BITS 2",
    "#define P_A_E_X_SHIFT 40",
    "#define P_A_Y_BITS 0",
    "#define P_A_E_X_MASK 0x30",
    "#define P_A_Y_SHIFT 010" }

\* lines about the pending field description and the name tables
ParseLines ==
  { "/* P :: A :: F [3:0] */",
    "#define P_A_F_SHIFT 0",
    "#define P_A_G_BITS 4",
    "int x;",
    "x = 1; /* P :: A :: G [7:4] */",
    "",
    "#define P_A_G_SHIFT 4 /* P :: A :: H [9:8] */",
    "/* P :: A_F */",
    "/* P_A :: F */",
    "/* Q :: B */ /* P :: A :: F [3:0] */",
    "#define P_A_F_BITS 08" }

\* every line of every input
AllLines ==
  GroupLines \cup FieldLines \cup ParseLines \cup
  {ExampleHeader[i] : i \in 1..Len(ExampleHeader)}

\* the sequences of at most n lines
SeqsUpTo(lines, n) == UNION {[1..k -> lines] : k \in 0..n}

\* the analysis of each line
LineInfo == [l \in AllLines |-> AnalyseLine(l)]

(***************************************************************************)
(* The run of parse_header_to_device_tree over one header                  *)
(***************************************************************************)

VARIABLES
  header,              \* lines: the lines of the header file
  pos,                 \* how many lines the loop has processed
  pc,                  \* "parse", "group", "build", "done" or "raised"
  registers_info,      \* name -> RegAddrDesc
  fields_info,         \* prefix -> {bitOffset, bitWidth}
  field_descriptions,  \* prefix -> description
  reg_fqn_to_periph,   \* fully-qualified name -> peripheral name
  reg_fqn_to_regname,  \* fully-qualified name -> register name
  last_field_info,     \* the pending field description
  peripherals,         \* peripheral name -> list of RegisterInfo
  stderr,              \* the register defines warned about
  device               \* the Device returned

vars ==
  << header, pos, pc, registers_info, fields_info, field_descriptions,
     reg_fqn_to_periph, reg_fqn_to_regname, last_field_info, peripherals,
     stderr, device >>

parseVars ==
  << registers_info, fields_info, field_descriptions, reg_fqn_to_periph,
     reg_fqn_to_regname, last_field_info >>

\* the default --device-name and --device-description
DeviceName == "Device Name"
DeviceDescription == "Device Description"

\* no Device has been built
NoDevice == [name |-> "", description |-> "", peripherals |-> EmptyDict]

\* the locals of parse_header_lines
ParseState ==
  [registers_info |-> registers_info,
   fields_info |-> fields_info,
   field_descriptions |-> field_descriptions,
   reg_fqn_to_periph |-> reg_fqn_to_periph,
   reg_fqn_to_regname |-> reg_fqn_to_regname,
   last_field_info |-> last_field_info]

InitWith(headers) ==
  /\ header \in headers
  /\ pos = 0
  /\ pc = "parse"
  /\ registers_info = InitialParse.registers_info
  /\ fields_info = InitialParse.fields_info
  /\ field_descriptions = InitialParse.field_descriptions
  /\ reg_fqn_to_periph = InitialParse.reg_fqn_to_periph
  /\ reg_fqn_to_regname = InitialParse.reg_fqn_to_regname
  /\ last_field_info = InitialParse.last_field_info
  /\ peripherals = EmptyDict
  /\ stderr = <<>>
  /\ device = NoDevice

Init == InitWith(SeqsUpTo(GroupLines, MaxLinesGroup) \cup {ExampleHeader})

InitFields == InitWith(SeqsUpTo(FieldLines, MaxLinesFields))

InitParse == InitWith(SeqsUpTo(ParseLines, MaxLinesParse))

\* one iteration of the loop of parse_header_lines
ParseLine ==
  /\ pc = "parse"
  /\ pos < Len(header)
  /\ ~LineRaises(LineInfo[header[pos + 1]])
  /\ LET ps == LineStep(ParseState, LineInfo[header[pos + 1]])
     IN /\ registers_info' = ps.registers_info
        /\ fields_info' = ps.fields_info
        /\ field_descriptions' = ps.field_descriptions
        /\ reg_fqn_to_periph' = ps.reg_fqn_to_periph
        /\ reg_fqn_to_regname' = ps.reg_fqn_to_regname
        /\ last_field_info' = ps.last_field_info
  /\ pos' = pos + 1
  /\ UNCHANGED << header, pc, peripherals, stderr, device >>

\* an iteration in which int(value_str, 0) raises ValueError: the exception
\* leaves parse_header_to_device_tree, no Device is returned
ParseLineRaises ==
  /\ pc = "parse"
  /\ pos < Len(header)
  /\ LineRaises(LineInfo[header[pos + 1]])
  /\ pc' = "raised"
  /\ UNCHANGED << header, pos, parseVars, peripherals, stderr, device >>

\* the loop is over: parse_header_lines returns the ParsedHeader
ParseReturn ==
  /\ pc = "parse"
  /\ pos = Len(header)
  /\ pc' = "group"
  /\ UNCHANGED << header, pos, parseVars, peripherals, stderr, device >>

\* the call of group_registers_by_peripheral
GroupRegisters ==
  /\ pc = "group"
  /\ LET g == group_registers_by_peripheral(registers_info, reg_fqn_to_periph,
                                            reg_fqn_to_regname)
     IN /\ peripherals' = g.peripherals
        /\ stderr' = g.stderr
  /\ pc' = "build"
  /\ UNCHANGED << header, pos, parseVars, device >>

\* the call of build_device_tree
BuildDeviceTree ==
  /\ pc = "build"
  /\ device' = build_device_tree(DeviceName, DeviceDescription, peripherals,
                                 fields_info, field_descriptions)
  /\ pc' = "done"
  /\ UNCHANGED << header, pos, parseVars, peripherals, stderr >>

Next ==
  \/ ParseLine
  \/ ParseLineRaises
  \/ ParseReturn
  \/ GroupRegisters
  \/ BuildDeviceTree

Spec == Init /\ [][Next]_vars

SpecFields == InitFields /\ [][Next]_vars

SpecParse == InitParse /\ [][Next]_vars

(***************************************************************************)
(* Reading the results                                                     *)
(***************************************************************************)

\* the keys of a dict as a set, and its values
Values(d) == {d[i].v : i \in 1..Len(d)}

\* the elements of a sequence
Elems(q) == {q[i] : i \in 1..Len(q)}

\* the Peripherals of the Device and the RegisterInfo lists of the grouping
TreePeripherals == Values(device.peripherals)

\* the RegisterInfo entries grouped under a peripheral name
GroupOf(periph_name) ==
  IF DictHas(peripherals, periph_name)
    THEN Elems(DictGet(peripherals, periph_name)) ELSE {}

\* every RegisterInfo of the grouping, with its peripheral name
Grouped ==
  UNION {{[periph |-> peripherals[i].k, info |-> ri] : ri \in Elems(peripherals[i].v)} :
           i \in 1..Len(peripherals)}

\* the register macro has a fully-qualified name of its own
HasOwnFqn(m) == DictHas(reg_fqn_to_periph, m)

\* the recorded fully-qualified names that are string prefixes of the macro
PrefixFqns(m) == {f \in DictKeySet(reg_fqn_to_periph) : StartsWith(m, f)}

\* the longest of a non-empty set of strings that are prefixes of one string
Longest(names) == CHOOSE f \in names : \A g \in names : Len(g) <= Len(f)

(***************************************************************************)
(* C1: the end-to-end example                                              *)
(***************************************************************************)

ExampleDone == header = ExampleHeader /\ pc = "done"

\* C1 as stated: the example header yields exactly one peripheral UART with
\* base address 0x1000, holding exactly one register CTRL (offset 0,
\* description "Control register"), holding exactly one field ENABLE (bit
\* offset 0, bit width 1, description "Enable bit").
C1_ExampleAsStated ==
  ExampleDone =>
    /\ Len(device.peripherals) = 1
    /\ device.peripherals[1].v.name = "UART"
    /\ device.peripherals[1].v.base_address = 4096
    /\ Len(device.peripherals[1].v.registers) = 1
    /\ LET r == device.peripherals[1].v.registers[1].v
       IN /\ r.name = "CTRL"
          /\ r.address_offset = 0
          /\ r.description = "Control register"
          /\ r.fields = << [name |-> "ENABLE", description |-> "Enable bit",
                            bit_offset |-> 0, bit_width |-> 1] >>

\* C1 (amended): on the example header the Device has no peripheral at all.
\* The first comment matches neither comment pattern; the field comment
\* records the fully-qualified name UART_UART_CTRL for peripheral UART,
\* register UART_CTRL; the register macro UART_CTRL (address 0x1000,
\* description UART_CTRL) is therefore attributed to no peripheral, warned
\* about and dropped; the field property table holds UART_CTRL_ENABLE with
\* bit offset 0 and bit width 1 and no description.
C1_ExampleYieldsEmptyDevice ==
  ExampleDone =>
    /\ device = [name |-> DeviceName, description |-> DeviceDescription,
                 peripherals |-> <<>>]
    /\ stderr = << "UART_CTRL" >>
    /\ registers_info = << [k |-> "UART_CTRL", v |-> [addr |-> 4096, desc |-> "UART_CTRL"]] >>
    /\ reg_fqn_to_periph = << [k |-> "UART_UART_CTRL", v |-> "UART"] >>
    /\ reg_fqn_to_regname = << [k |-> "UART_UART_CTRL", v |-> "UART_CTRL"] >>
    /\ fields_info = << [k |-> "UART_CTRL_ENABLE",
                         v |-> << [k |-> "bitOffset", v |-> 0],
                                  [k |-> "bitWidth", v |-> 1] >>] >>
    /\ field_descriptions = <<>>

C1_Witness == ExampleDone /\ stderr # <<>>

(***************************************************************************)
(* C2: fallback grouping                                                   *)
(***************************************************************************)

\* the register macros attributed by the fallback: no name of their own,
\* some recorded name is a prefix
FallbackMacros ==
  {m \in DictKeySet(registers_info) : ~HasOwnFqn(m) /\ PrefixFqns(m) # {}}

\* the macro is grouped under the peripheral with the register name
GroupedAs(m, periph_name, reg_name) ==
  \E ri \in GroupOf(periph_name) : ri.reg_define = m /\ ri.reg_name = reg_name

\* C2 as stated: a register macro FOO_BAR_BAZ without a name of its own,
\* whose longest recorded prefix name FOO_BAR stands for peripheral FOO and
\* register BAR, is grouped under FOO with the register name BAZ, the rest
\* of the macro after the fully-qualified name and an underscore.
C2_FallbackAsStated ==
  pc \in {"build", "done"} =>
    \A m \in FallbackMacros :
      LET f == Longest(PrefixFqns(m))
      IN StartsWith(m, f \o "_") =>
           GroupedAs(m, DictGet(reg_fqn_to_periph, f), DropFirst(m, Len(f) + 1))

\* C2 (amended): such a macro is grouped under FOO with the register name
\* BAR_BAZ, the rest of the macro after the peripheral name and an
\* underscore; this holds for every macro attributed by the fallback, with
\* the peripheral of the longest recorded name that is a prefix of it.
C2_FallbackStripsPeripheral ==
  pc \in {"build", "done"} =>
    \A m \in FallbackMacros :
      LET periph_name == DictGet(reg_fqn_to_periph, Longest(PrefixFqns(m)))
      IN DropFirst(m, Len(periph_name) + 1) # "" =>
           /\ GroupedAs(m, periph_name, DropFirst(m, Len(periph_name) + 1))
           /\ \A g \in Grouped :
                g.info.reg_define = m =>
                  /\ g.periph = periph_name
                  /\ g.info.reg_name = DropFirst(m, Len(periph_name) + 1)

\* the case of the claim: FOO_BAR recorded for FOO and BAR, FOO_BAR_BAZ
\* attributed by the fallback as BAR_BAZ
C2_Witness ==
  /\ pc = "done"
  /\ DictKeySet(reg_fqn_to_periph) = {"FOO_BAR"}
  /\ DictGet(reg_fqn_to_periph, "FOO_BAR") = "FOO"
  /\ DictGet(reg_fqn_to_regname, "FOO_BAR") = "BAR"
  /\ GroupedAs("FOO_BAR_BAZ", "FOO", "BAR_BAZ")

(***************************************************************************)
(* C3: peripheral base address                                             *)
(***************************************************************************)

\* C3: in the Device built, every peripheral's base address is the least
\* absolute address of the register macros grouped under it, and every
\* register of the peripheral has a non-negative address offset equal to the
\* absolute address of its macro minus that base address.
C3_BaseAddressMinimal ==
  pc = "done" =>
    /\ {p.name : p \in TreePeripherals} = DictKeySet(peripherals)
    /\ \A p \in TreePeripherals :
         /\ \E ri \in GroupOf(p.name) : ri.addr = p.base_address
         /\ \A ri \in GroupOf(p.name) :
              /\ p.base_address <= ri.addr
              /\ ri.addr = DictGet(registers_info, ri.reg_define).addr
         /\ \A r \in Values(p.registers) :
              /\ r.address_offset >= 0
              /\ \E ri \in GroupOf(p.name) :
                   /\ ri.reg_name = r.name
                   /\ r.address_offset = ri.addr - p.base_address

\* a peripheral of several registers whose first grouped register does not
\* have the least address
C3_Witness ==
  /\ pc = "done"
  /\ \E p \in TreePeripherals :
       /\ Len(p.registers) >= 2
       /\ DictGet(peripherals, p.name)[1].addr > p.base_address

(***************************************************************************)
(* C4: the most specific register owns a field                             *)
(***************************************************************************)

\* the register macros that have a Register in the tree
TreeMacros == {g.info.reg_define : g \in Grouped}

\* the Register of the tree that stands for a grouped register macro
RegisterOfMacro(m) ==
  LET g == CHOOSE g \in Grouped : g.info.reg_define = m
  IN DictGet(DictGet(device.peripherals, g.periph).registers, g.info.reg_name)

\* the register built from macro m holds the field of this prefix
HasFieldFrom(m, prefix) ==
  /\ StartsWith(prefix, m \o "_")
  /\ \E f \in Elems(RegisterOfMacro(m).fields) : f.name = DropFirst(prefix, Len(m) + 1)

\* both properties of the prefix are known
Complete(prefix) ==
  /\ DictHas(fields_info, prefix)
  /\ DictHas(DictGet(fields_info, prefix), "bitOffset")
  /\ DictHas(DictGet(fields_info, prefix), "bitWidth")

\* the register macros of the tree that the prefix extends by "_" and more
Candidates(prefix) == {m \in TreeMacros : StartsWith(prefix, m \o "_")}

\* C4: a complete field prefix is attached to the register of the longest
\* register macro R of the tree such that the prefix starts with R and an
\* underscore, and to no other register; in particular, with register
\* definitions A and A_EXT both present, a prefix that starts with A_EXT_ is
\* never attached to the register built from A.
C4_MostSpecificRegister ==
  pc = "done" =>
    \A prefix \in DictKeySet(fields_info) :
      Complete(prefix) =>
        /\ Candidates(prefix) # {} =>
             /\ HasFieldFrom(Longest(Candidates(prefix)), prefix)
             /\ \A m \in TreeMacros \ {Longest(Candidates(prefix))} :
                  ~HasFieldFrom(m, prefix)
        /\ \A a \in DictKeySet(registers_info), b \in DictKeySet(registers_info) :
             (StartsWith(b, a \o "_") /\ StartsWith(prefix, b \o "_")) =>
               /\ a \in TreeMacros => ~HasFieldFrom(a, prefix) /\ b \in TreeMacros
               /\ b \in TreeMacros =>
                    \E m \in TreeMacros : Len(m) >= Len(b) /\ HasFieldFrom(m, prefix)

\* registers P_A and P_A_E are in the tree and the complete prefix P_A_E_X
\* became field X of P_A_E
C4_Witness ==
  /\ pc = "done"
  /\ {"P_A", "P_A_E"} \subseteq TreeMacros
  /\ Complete("P_A_E_X")
  /\ HasFieldFrom("P_A_E", "P_A_E_X")

(***************************************************************************)
(* C5: bit range of a field                                                *)
(***************************************************************************)

\* every Field of the tree, with the macro of its register
TreeFields ==
  UNION {{[macro |-> m, field |-> f] : f \in Elems(RegisterOfMacro(m).fields)} :
           m \in TreeMacros}

\* C5: every Field of the Device has 0 <= bit_offset <= 31, bit_width >= 1
\* and bit_offset + bit_width <= 32, the register size.
C5_FieldBitRange ==
  pc = "done" =>
    \A tf \in TreeFields :
      /\ 0 <= tf.field.bit_offset
      /\ tf.field.bit_offset <= 31
      /\ tf.field.bit_width >= 1
      /\ tf.field.bit_offset + tf.field.bit_width <= RegisterSize

(***************************************************************************)
(* C6: a register that no peripheral can be found for                      *)
(***************************************************************************)

\* no name of its own and no recorded name is a prefix of the macro
Unattributable(m) == ~HasOwnFqn(m) /\ PrefixFqns(m) = {}

\* the peripheral a register macro is to be attributed to
ExpectedPeripheral(m) ==
  IF HasOwnFqn(m) THEN DictGet(reg_fqn_to_periph, m)
  ELSE DictGet(reg_fqn_to_periph, Longest(PrefixFqns(m)))

\* the macro can be attributed: to a peripheral, with a register name
Attributable(m) ==
  /\ ~Unattributable(m)
  /\ DropFirst(m, Len(ExpectedPeripheral(m)) + 1) # ""

\* the dict without a key
DictRemove(d, k) == SelectSeq(d, LAMBDA e : e.k # k)

\* C6: a register macro without a name of its own, of which no recorded name
\* is a prefix, is warned about and has no register in the tree; the run
\* does not abort (it ends abnormally only where a line of the header makes
\* the parser raise, never in the grouping); every register definition that
\* can be attributed is in the tree under its peripheral, name and address;
\* and the groups and the tree are those of the run without that macro.
C6_UnattributableDropped ==
  /\ pc = "raised" =>
       /\ pos < Len(header)
       /\ LineRaises(LineInfo[header[pos + 1]])
       /\ stderr = <<>>
  /\ pc = "done" =>
       /\ \A m \in DictKeySet(registers_info) :
            Unattributable(m) =>
              /\ m \notin TreeMacros
              /\ m \in Elems(stderr)
              /\ LET g == group_registers_by_peripheral(
                            DictRemove(registers_info, m),
                            reg_fqn_to_periph, reg_fqn_to_regname)
                 IN /\ g.peripherals = peripherals
                    /\ build_device_tree(DeviceName, DeviceDescription, g.peripherals,
                                         fields_info, field_descriptions) = device
       /\ \A m \in DictKeySet(registers_info) :
            Attributable(m) =>
              \E p \in TreePeripherals :
                /\ p.name = ExpectedPeripheral(m)
                /\ \E r \in Values(p.registers) :
                     /\ r.name = DropFirst(m, Len(p.name) + 1)
                     /\ p.base_address + r.address_offset =
                          DictGet(registers_info, m).addr

\* a run that dropped a register and kept another
C6_Witness ==
  /\ pc = "done"
  /\ \E m \in DictKeySet(registers_info) : Unattributable(m)
  /\ \E m \in DictKeySet(registers_info) : Attributable(m) /\ m \in TreeMacros

(***************************************************************************)
(* C7: bit offset and bit width of a field                                 *)
(***************************************************************************)

\* the lines of the header that define the macro of this name
DefinesOf(name) ==
  {i \in 1..Len(header) :
     LineInfo[header[i]].m_def.ok /\ LineInfo[header[i]].m_def.caps[1] = name}

\* the value the last define of the name gives it
LastDefineValue(name) ==
  LET i == CHOOSE i \in DefinesOf(name) : \A j \in DefinesOf(name) : j <= i
  IN IntBase0(LineInfo[header[i]].m_def.caps[2])

\* the prefixes of the macros of the header that end in a field suffix
HeaderPrefixes ==
  {RSplitHead(LineInfo[header[i]].m_def.caps[1]) :
     i \in {j \in 1..Len(header) :
              /\ LineInfo[header[j]].m_def.ok
              /\ \E sfx \in {"_SHIFT", "_BITS", "_MASK", "_ALIGN"} :
                   EndsWith(LineInfo[header[j]].m_def.caps[1], sfx)}}

\* C7: for every Field of the tree the header defines both the _SHIFT and
\* the _BITS macro of the field's prefix, bit_offset is the value of the last
\* _SHIFT define and bit_width the value of the last _BITS define; a prefix
\* of which one of the two is not defined gives no Field anywhere.
C7_ShiftBitsExact ==
  pc = "done" =>
    /\ \A tf \in TreeFields :
         LET prefix == tf.macro \o "_" \o tf.field.name
         IN /\ DefinesOf(prefix \o "_SHIFT") # {}
            /\ DefinesOf(prefix \o "_BITS") # {}
            /\ tf.field.bit_offset = LastDefineValue(prefix \o "_SHIFT")
            /\ tf.field.bit_width = LastDefineValue(prefix \o "_BITS")
    /\ \A prefix \in HeaderPrefixes :
         (DefinesOf(prefix \o "_SHIFT") = {} \/ DefinesOf(prefix \o "_BITS") = {}) =>
           \A m \in TreeMacros : ~HasFieldFrom(m, prefix)

\* a Field whose _SHIFT macro the header defines twice, with two values
C7_Witness ==
  /\ pc = "done"
  /\ \E tf \in TreeFields :
       \E i \in DefinesOf(tf.macro \o "_" \o tf.field.name \o "_SHIFT") :
         IntBase0(LineInfo[header[i]].m_def.caps[2]) # tf.field.bit_offset

(***************************************************************************)
(* Reading the lines processed so far                                      *)
(***************************************************************************)

\* the analysis of line i of the header
Line(i) == LineInfo[header[i]]

\* line i holds a field comment; the context it sets
IsFieldComment(i) == Line(i).field_match.ok
CtxOf(i) == FieldInfoOf(Line(i).field_match)[1]

\* line i is neither a #define line, nor the start of a comment, nor empty
ResetLine(i) == ResetsContext(Line(i).line)

\* line i is a field-property define; the prefix of its macro
IsPropLine(i) == IsFieldPropLine(Line(i))
PropPrefix(i) == RSplitHead(Line(i).m_def.caps[1])

\* line k is a field-property define that the context of key_base matches
Consumes(k, key_base) == IsPropLine(k) /\ StartsWith(PropPrefix(k), key_base)

\* the context of the field comment of line i is still there when line j
\* starts: no line in between reset, replaced or consumed it
Survives(i, j) ==
  \A k \in (i + 1)..(j - 1) :
    ~ResetLine(k) /\ ~IsFieldComment(k) /\ ~Consumes(k, CtxOf(i).key_base)

\* the field comment of line i is pending after the lines processed so far
Pending(i) == i \in 1..pos /\ IsFieldComment(i) /\ Survives(i, pos + 1)

\* the define of line j consumed the context of the field comment of line i
ConsumedAt(i, j) ==
  /\ i \in 1..pos /\ j \in (i + 1)..pos
  /\ IsFieldComment(i)
  /\ Consumes(j, CtxOf(i).key_base)
  /\ Survives(i, j)

(***************************************************************************)
(* C8: the reset of the pending field description                          *)
(***************************************************************************)

\* every description of the table was set by a field comment with no
\* resetting line between the comment and the define that received it
NoDescriptionAcrossReset ==
  \A e \in Elems(field_descriptions) :
    \E i \in 1..pos, j \in 1..pos :
      /\ i < j
      /\ IsFieldComment(i) /\ CtxOf(i).desc = e.v
      /\ IsPropLine(j) /\ PropPrefix(j) = e.k
      /\ StartsWith(e.k, CtxOf(i).key_base)
      /\ \A r \in (i + 1)..(j - 1) : ~ResetLine(r)

\* C8 as stated: after a line that is neither a #define line, nor the start
\* of a comment, nor empty, the pending context is empty, and no define
\* receives a description across such a line.
C8_ResetAsStated ==
  /\ (pos > 0 /\ ResetLine(pos)) => last_field_info = NoFieldInfo
  /\ NoDescriptionAcrossReset

\* C8 (amended): after such a line the pending context is empty unless the
\* line itself holds a field comment, whose context is then pending; no
\* define receives a description across such a line; and after any lines
\* the pending context is that of the last field comment, provided no later
\* line reset it or consumed it, so that #define, comment and blank lines
\* that neither consume nor replace it leave it in place.
C8_ResetClearsEarlierContext ==
  /\ (pos > 0 /\ ResetLine(pos)) =>
       last_field_info = IF IsFieldComment(pos) THEN << CtxOf(pos) >> ELSE NoFieldInfo
  /\ NoDescriptionAcrossReset
  /\ \A i \in 1..pos : Pending(i) => last_field_info = << CtxOf(i) >>
  /\ last_field_info # NoFieldInfo => \E i \in 1..pos : Pending(i)

\* a field comment, then a resetting line, then a define the comment's
\* context would have matched, which got no description
C8_Witness ==
  \E i \in 1..pos, r \in 1..pos, j \in 1..pos :
    /\ i < r /\ r < j
    /\ IsFieldComment(i) /\ ResetLine(r) /\ ~IsFieldComment(r)
    /\ Consumes(j, CtxOf(i).key_base)
    /\ ~DictHas(field_descriptions, PropPrefix(j))

(***************************************************************************)
(* C9: the pending field description is consumed at most once              *)
(***************************************************************************)

\* the field comments whose context a define consumed
ConsumedComments == {i \in 1..pos : \E j \in 1..pos : ConsumedAt(i, j)}

\* C9: the description of a field comment enters the table under at most
\* one prefix, that of the first later field-property define whose prefix
\* starts with the context's key; the define clears the pending context, so
\* that later defines receive nothing from that comment.
C9_ConsumedAtMostOnce ==
  /\ \A e \in Elems(field_descriptions) :
       \E i \in 1..pos, j \in 1..pos :
         ConsumedAt(i, j) /\ PropPrefix(j) = e.k /\ CtxOf(i).desc = e.v
  /\ Len(field_descriptions) <= Cardinality(ConsumedComments)
  /\ \A i \in 1..pos, j \in 1..pos :
       ConsumedAt(i, j) =>
         /\ DictHas(field_descriptions, PropPrefix(j))
         /\ j = pos =>
              last_field_info =
                IF IsFieldComment(pos) THEN << CtxOf(pos) >> ELSE NoFieldInfo

\* one field comment, consumed by a define, and a later define of another
\* prefix that the context would have matched and that got no description
C9_Witness ==
  \E i \in 1..pos, j \in 1..pos, k \in 1..pos :
    /\ ConsumedAt(i, j) /\ j < k
    /\ \A n \in (i + 1)..k : ~IsFieldComment(n)
    /\ Consumes(k, CtxOf(i).key_base)
    /\ PropPrefix(k) # PropPrefix(j)
    /\ ~DictHas(field_descriptions, PropPrefix(k))

(***************************************************************************)
(* C10: the first occurrence of a fully-qualified name wins                *)
(***************************************************************************)

\* the lines processed so far that yield the fully-qualified name
FqnLines(fqn) == {i \in 1..pos : HasFqn(Line(i)) /\ FqnOf(Line(i)) = fqn}

\* the first of them
FirstFqnLine(fqn) == CHOOSE i \in FqnLines(fqn) : \A j \in FqnLines(fqn) : i <= j

\* the two tables have the same keys, those the lines so far yield, each
\* with the peripheral and register of the first line that yields it
FqnTablesFromFirstLines ==
  /\ DictKeys(reg_fqn_to_periph) = DictKeys(reg_fqn_to_regname)
  /\ DictKeySet(reg_fqn_to_periph) = {FqnOf(Line(i)) : i \in {j \in 1..pos : HasFqn(Line(j))}}
  /\ \A fqn \in DictKeySet(reg_fqn_to_periph) :
       /\ DictGet(reg_fqn_to_periph, fqn) =
            CommentNames(Line(FirstFqnLine(fqn))).periph_name
       /\ DictGet(reg_fqn_to_regname, fqn) = FqnRegName(Line(FirstFqnLine(fqn)))

\* no step changes or removes a recorded pair
FqnPairsStable ==
  \A fqn \in DictKeySet(reg_fqn_to_periph) :
    /\ DictHas(reg_fqn_to_periph', fqn) /\ DictHas(reg_fqn_to_regname', fqn)
    /\ DictGet(reg_fqn_to_periph', fqn) = DictGet(reg_fqn_to_periph, fqn)
    /\ DictGet(reg_fqn_to_regname', fqn) = DictGet(reg_fqn_to_regname, fqn)

\* C10: a recorded fully-qualified name keeps its (peripheral, register)
\* pair whatever lines follow, the two tables always have the same keys, and
\* each name has the pair of the first line that produced it.
C10_FirstFqnWins == [](FqnTablesFromFirstLines) /\ [][FqnPairsStable]_vars

\* two lines gave the same fully-qualified name with different pairs
C10_Witness ==
  \E i \in 1..pos, j \in 1..pos :
    /\ i < j
    /\ HasFqn(Line(i)) /\ HasFqn(Line(j))
    /\ FqnOf(Line(i)) = FqnOf(Line(j))
    /\ CommentNames(Line(i)).periph_name # CommentNames(Line(j)).periph_name

(***************************************************************************)
(* C11: the two comment patterns and the name tables                       *)
(***************************************************************************)

\* the line matches the register-comment pattern
IsRegisterComment(i) == Line(i).reg_match.ok

\* the name a comment gives a register: stripped, spaces as underscores
NameFrom(text) == Replace(Strip(text), " ", "_")

\* the (fully-qualified name, peripheral, register) the groups of a match give
EntryFrom(m) ==
  [fqn |-> m.caps[1] \o "_" \o NameFrom(m.caps[2]),
   periph |-> m.caps[1],
   regname |-> NameFrom(m.caps[2])]

\* the two name tables together, as a set of entries
FqnEntries ==
  {[fqn |-> reg_fqn_to_periph[k].k,
    periph |-> reg_fqn_to_periph[k].v,
    regname |-> DictGet(reg_fqn_to_regname, reg_fqn_to_periph[k].k)] :
     k \in 1..Len(reg_fqn_to_periph)}

\* the same, after the step
FqnEntriesAfter ==
  {[fqn |-> reg_fqn_to_periph'[k].k,
    periph |-> reg_fqn_to_periph'[k].v,
    regname |-> DictGet(reg_fqn_to_regname', reg_fqn_to_periph'[k].k)] :
     k \in 1..Len(reg_fqn_to_periph')}

\* the step processes one line, line pos + 1
ProcessesLine == pc = "parse" /\ pos' = pos + 1

\* the tables gain the entry of the match m if its name is not recorded yet,
\* and nothing else
GainsOnly(m) ==
  FqnEntriesAfter =
    IF DictHas(reg_fqn_to_periph, EntryFrom(m).fqn)
      THEN FqnEntries
      ELSE FqnEntries \cup {EntryFrom(m)}

\* C11 as stated: a line matching the field-comment pattern leaves the name
\* tables unchanged, and the tables change only on a line that matches the
\* register-comment pattern and not the field-comment pattern.
C11_FieldCommentLeavesTables ==
  [][ProcessesLine =>
       /\ IsFieldComment(pos + 1) => FqnEntriesAfter = FqnEntries
       /\ FqnEntriesAfter # FqnEntries =>
            IsRegisterComment(pos + 1) /\ ~IsFieldComment(pos + 1)]_vars

\* C11: in every iteration the field-comment pattern is tried first and the
\* register-comment pattern only when it did not match.  A line matching the
\* field-comment pattern sets the pending context to that comment's and
\* records PERIPH_REG, from that comment's groups, in the name tables if it
\* is not recorded yet; a line matching only the register-comment pattern
\* records PERIPH_NAME if it is not recorded yet; a line matching neither
\* leaves the tables unchanged.  No other step changes the tables.
C11_FieldCommentFirst ==
  [][/\ ProcessesLine /\ IsFieldComment(pos + 1) =>
          /\ last_field_info' = <<CtxOf(pos + 1)>>
          /\ GainsOnly(Line(pos + 1).field_match)
     /\ ProcessesLine /\ ~IsFieldComment(pos + 1) /\ IsRegisterComment(pos + 1) =>
          GainsOnly(Line(pos + 1).reg_match)
     /\ ProcessesLine /\ ~IsFieldComment(pos + 1) /\ ~IsRegisterComment(pos + 1) =>
          FqnEntriesAfter = FqnEntries
     /\ ~ProcessesLine => FqnEntriesAfter = FqnEntries]_vars

\* a line matching both patterns, with different names, has been processed:
\* the name of its field comment is recorded, that of its register comment
\* is not
C11_Witness ==
  \E i \in 1..pos :
    /\ IsFieldComment(i) /\ IsRegisterComment(i)
    /\ EntryFrom(Line(i).field_match).fqn # EntryFrom(Line(i).reg_match).fqn
    /\ EntryFrom(Line(i).field_match) \in FqnEntries
    /\ ~DictHas(reg_fqn_to_periph, EntryFrom(Line(i).reg_match).fqn)

(***************************************************************************)
(* C12: register names within a peripheral                                 *)
(***************************************************************************)

\* the register macros grouped under the i-th peripheral of the grouping
MacrosOfGroup(i) == {ri.reg_define : ri \in Elems(peripherals[i].v)}

\* the register names resolved for them
NamesOfGroup(i) == {ri.reg_name : ri \in Elems(peripherals[i].v)}

\* the grouping has been computed
GroupingDone == pc \in {"build", "done"}

\* C12: within each peripheral of the grouping, distinct register macros
\* have distinct resolved register names (each macro is listed once), and
\* the peripheral of the tree built from the group has exactly one register
\* for each register macro attributed to it.
C12_NoNameCollision ==
  GroupingDone =>
    \A i \in 1..Len(peripherals) :
      /\ Cardinality(MacrosOfGroup(i)) = Len(peripherals[i].v)
      /\ \A r1, r2 \in Elems(peripherals[i].v) :
           r1.reg_define # r2.reg_define => r1.reg_name # r2.reg_name
      /\ pc = "done" /\ peripherals[i].v # <<>> =>
           /\ DictHas(device.peripherals, peripherals[i].k)
           /\ Len(DictGet(device.peripherals, peripherals[i].k).registers) =
                Cardinality(MacrosOfGroup(i))
           /\ DictKeySet(DictGet(device.peripherals, peripherals[i].k).registers) =
                NamesOfGroup(i)

\* the tree is built and a peripheral holds a register attributed by its own
\* fully-qualified name and another attributed by the prefix fallback
C12_Witness ==
  /\ pc = "done"
  /\ \E i \in 1..Len(peripherals) :
       \E r1, r2 \in Elems(peripherals[i].v) :
         /\ HasOwnFqn(r1.reg_define)
         /\ ~HasOwnFqn(r2.reg_define)
         /\ Len(DictGet(device.peripherals, peripherals[i].k).registers) >= 2

(***************************************************************************)
(* C13: line processing and errors                                         *)
(***************************************************************************)

\* C13: parse_header_lines never raises: no run ends in an exception, and
\* once the loop over the lines is left every line of the header has been
\* processed, the defines with leading-zero decimal values included.
C13_LineProcessingNeverFails ==
  /\ pc # "raised"
  /\ pc # "parse" => pos = Len(header)

====
